---- MODULE Spec2Model ----
(***************************************************************************)
(* A model of FreeCAD_TopoHasher_PuLs4r_V1.py: the change aggregator with  *)
(* its throttle, the two-flag suspension logic, the debounced recompute    *)
(* pass, the dependency sort and the fingerprint engine.                   *)
(*                                                                         *)
(* Time is counted in milliseconds and advances in steps of Quantum.  A    *)
(* Qt timer is modelled by the time left until it fires (Inactive when it   *)
(* is not running); a timer that has reached 0 fires before time advances   *)
(* again.  Handlers run to completion and take no time; the only place a    *)
(* handler gives up control is QCoreApplication.processEvents() inside      *)
(* on_recompute_timer (pc = "yield"), where every other handler may run.    *)
(***************************************************************************)
EXTENDS Integers, Sequences, FiniteSets, TLC

\* ------------------------------------------------------------------------
\* Configuration (config dict) and the literal settle delay of the
\* QTimer.singleShot calls.
history_length == 5
recompute_delay == 300
dependency_depth == 3
batch_size == 50
edit_check_interval == 200
throttle_interval == 100
settle_delay == 100

\* Clock granularity: the smallest delay of the program.
Quantum == throttle_interval

\* A timer that is not running (recompute_timer = None, or a single-shot
\* timer that has fired or was stopped).
Inactive == -1

\* At most this many check_task_completion single shots are pending at once.
MaxPending == 1

\* ------------------------------------------------------------------------
\* The host document the scheduler watches: two objects, the pad depending
\* on the sketch.  The sketch exists from the start; the pad is the object
\* the host creates (and may delete and create again) during the session.
Objs == {"Sketch", "Pad"}
CreatedObjs == {"Pad"}

OutList == [o \in Objs |-> IF o = "Pad" THEN <<"Sketch">> ELSE <<>>]

Label(o) == IF o = "Pad" THEN "Pad001" ELSE "Profile"

\* Property names carried by the notifications of the model.
Props == {"Length"}
NewObject == "Neues Objekt"
ignored_props == {"FeatureHash", "FeatureHistory", "_GroupTouched", "Visibility",
                  "FullyConstrained", "EditModes", "EditMode", "EditCurves",
                  "EditHighlight", "HiddenLines"}
EventProps == Props \cup {"Visibility"}

\* Object names of the widgets whose ChildAdded / ChildRemoved events reach
\* the event filter, and the filter's test on them: the name is "TaskPanel"
\* or contains "task" or "panel" in lower case, which of WidgetNames only
\* "TaskPanel" does.
WidgetNames == {"TaskPanel", "statusBar"}
is_task_panel(n) == n = "TaskPanel"

VARIABLES
    observer_active,      \* global observer_active
    active,               \* .active of the three observer objects
    recompute_queue,      \* set of objects
    changed_properties,   \* label -> list of property names (keys present only)
    pending_output,
    recompute_timer,      \* time left of the debounce timer, or Inactive
    task_panel_active,
    changes_during_task,
    edit_mode_active,
    elapsed,              \* time.time() - document_observer.last_change_time, capped
    throttle_queue,       \* object name -> set of property names
    throttle_timer,
    in_edit_last,
    edit_timer,           \* the periodic timer of EditModeObserver
    detected_panels,
    edit_completion,      \* pending singleShot(100, check_edit_completion): times left
    task_completion,      \* pending singleShot(100, check_task_completion): times left
    pc,                   \* "idle", or "yield" inside on_recompute_timer
    sorted_objects,       \* local of on_recompute_timer during a pass
    batch_i,              \* loop variable i of on_recompute_timer
    \* history variables (not program state)
    dirty,                \* objects with an accepted change and no fingerprint since
    arrived,              \* objects accepted during the yield of the pass in flight
    winChanged,           \* a change was accepted since Suspended was entered
    \* a call of sort_by_dependencies (specification SpecSort)
    sort_out,             \* OutList of every object of the document
    sort_objects,         \* the argument `objects`
    sort_result,          \* the returned list
    sort_done,
    \* one object under process_feature (specification SpecFeature)
    clock,                \* time.time()
    attrs,                \* the object's properties other than the two below
    has_TimeStamp,        \* the host exposes obj.TimeStamp
    TimeStamp,
    FeatureHash,          \* <<>> while the property is absent or empty
    FeatureHistory,       \* <<>> while the property is absent or empty
    feature_cache,        \* obj.Name -> [time, hash]
    returned,             \* the value the last process_feature call returned
    \* history variables of the specifications SpecEdit and SpecThrottle
    winProps,             \* object -> property names accepted in the edit window
    burstN,               \* events of the current burst for BurstObj (capped)
    burstAggs,            \* accepted aggregations the burst has produced
    burstProps,           \* property names the events of the burst carried
    burstOpen,            \* no time has passed since the burst's last event
    \* history variables of the specification SpecFeature
    fullLog,              \* every entry appended to FeatureHistory, none evicted
    lastCall,             \* how the last process_feature call ended, "none"
                          \* once the object was modified after it
    \* history variable of the specification SpecStall
    stalled,              \* objects queued when the debounce timer fired under
                          \* suspension, and still queued
    \* one recompute pass over a document (specification SpecPass)
    run_out,              \* OutList of every object of the document
    run_queue,            \* list(recompute_queue)
    run_removed,          \* objects the host has removed since they were queued
    run_failing,          \* objects on which the host raises inside process_feature
    run_calls,            \* the process_feature calls of the pass: <<object, result>>
    run_pc,               \* "timer", "yield", "done", or "raised"
    run_cleared,          \* recompute_queue.clear() was reached
    \* one call of process_with_depth_limit (specification SpecDepth)
    depth_out,            \* OutList of every object of the document
    depth_obj,            \* the argument obj
    depth_d,              \* the argument depth
    depth_calls,          \* the objects process_feature was called on, in order
    depth_done,
    \* history variables of the specification SpecDebounce
    quiet,                \* time since the last signal accepted while not
                          \* suspended, capped at recompute_delay
    replaced,             \* times left of the QTimer objects recompute_timer
                          \* referred to earlier and that are still running
    \* history variable of the specification SpecFilter
    filtered,             \* property names of the notifications the slot has
                          \* dropped since any other handler ran
    \* history variables of the specification SpecLoss
    normalPending,        \* objects with a change accepted while neither flag
                          \* was set and in no snapshot of a pass since
    sinceEntry            \* queued objects with a change accepted since
                          \* suspension was last entered

obsVars == <<observer_active, active>>
aggVars == <<recompute_queue, changed_properties, pending_output, recompute_timer,
             changes_during_task, elapsed, throttle_queue, throttle_timer>>
flagVars == <<task_panel_active, edit_mode_active, in_edit_last, edit_timer,
              detected_panels, edit_completion, task_completion>>
passVars == <<pc, sorted_objects, batch_i>>
histVars == <<dirty, arrived, winChanged>>
sortVars == <<sort_out, sort_objects, sort_result, sort_done>>
featVars == <<clock, attrs, has_TimeStamp, TimeStamp, FeatureHash, FeatureHistory,
              feature_cache, returned>>
schedVars == <<obsVars, aggVars, flagVars, passVars, histVars>>
winVars == <<winProps>>
burstVars == <<burstN, burstAggs, burstProps, burstOpen>>
logVars == <<fullLog, lastCall>>
stallVars == <<stalled>>
runVars == <<run_out, run_queue, run_removed, run_failing, run_calls, run_pc,
             run_cleared>>
depthVars == <<depth_out, depth_obj, depth_d, depth_calls, depth_done>>
debVars == <<quiet, replaced>>
filterVars == <<filtered>>
lossVars == <<normalPending, sinceEntry>>
moreVars == <<logVars, stallVars, runVars, depthVars, debVars, filterVars, lossVars>>
auxVars == <<sortVars, featVars, winVars, burstVars, moreVars>>
vars == <<schedVars, auxVars>>

\* ------------------------------------------------------------------------
\* Helpers

Suspended == edit_mode_active \/ task_panel_active

Range(s) == {s[k] : k \in 1..Len(s)}

Min(a, b) == IF a < b THEN a ELSE b

\* Every ordering of a finite set as a sequence (iteration order of a set).
Orders(S) == {s \in [1..Cardinality(S) -> S] : Range(s) = S}

EmptyMap == [k \in {} |-> <<>>]

\* changed_properties[label] of a defaultdict(list), without creating the key.
Get(cp, l) == IF l \in DOMAIN cp THEN cp[l] ELSE <<>>

Put(cp, l, v) == [k \in DOMAIN cp \cup {l} |-> IF k = l THEN v ELSE cp[k]]

\* if prop not in changed_properties[label]: changed_properties[label].append(prop)
AppendNew(cp, l, prop) ==
    IF prop \in Range(Get(cp, l)) THEN Put(cp, l, Get(cp, l))
    ELSE Put(cp, l, Append(Get(cp, l), prop))

RECURSIVE AppendAll(_, _, _)
AppendAll(cp, l, props) ==
    IF props = <<>> THEN cp
    ELSE AppendAll(AppendNew(cp, l, Head(props)), l, Tail(props))

\* The property names recorded for the object o.
RecordOf(cp, o) == Range(Get(cp, Label(o)))

\* Time left of a running timer after Quantum has passed.
Dec(t) == IF t = Inactive THEN Inactive ELSE IF t > Quantum THEN t - Quantum ELSE 0

Running(t) == t # Inactive

\* ------------------------------------------------------------------------
\* sort_by_dependencies: depth-first post-order over the in-set OutList edges.
\* st is the pair of locals [visited, result]; out[o] is o's OutList.

graph(objects, out, name) ==
    SelectSeq(out[name], LAMBDA c : c \in Range(objects))

RECURSIVE visit(_, _, _, _), visit_children(_, _, _, _)
visit(objects, out, node_name, st) ==
    IF node_name \in st.visited THEN st
    ELSE LET st1 == [st EXCEPT !.visited = @ \cup {node_name}]
             st2 == visit_children(objects, out, graph(objects, out, node_name), st1)
         IN  IF node_name \in Range(objects)
             THEN [st2 EXCEPT !.result = Append(@, node_name)]
             ELSE st2

visit_children(objects, out, children, st) ==
    IF children = <<>> THEN st
    ELSE visit_children(objects, out, Tail(children),
                        visit(objects, out, Head(children), st))

RECURSIVE visit_all(_, _, _, _)
visit_all(objects, out, rest, st) ==
    IF rest = <<>> THEN st
    ELSE visit_all(objects, out, Tail(rest), visit(objects, out, Head(rest), st))

\* result.insert(0, obj) in place of result.append(obj)
sort_by_dependencies_dependents_first(objects, out) ==
    LET r == visit_all(objects, out, objects, [visited |-> {}, result |-> <<>>]).result
    IN  [k \in 1..Len(r) |-> r[Len(r) + 1 - k]]

\* The final loop visiting objects[0] only
sort_by_dependencies_first_only(objects, out) ==
    IF objects = <<>> THEN <<>>
    ELSE visit(objects, out, Head(objects), [visited |-> {}, result |-> <<>>]).result

sort_by_dependencies(objects, out) ==
    visit_all(objects, out, objects, [visited |-> {}, result |-> <<>>]).result

\* ------------------------------------------------------------------------
\* process_feature as its caller sees it.  On an object the host has removed
\* obj.Name raises inside the try and again inside the except clause, so the
\* exception leaves the function; any other failure inside the try is caught
\* and the function returns False; without a failure it returns its verdict,
\* which no caller in a pass looks at.
process_feature_result(obj, removed, failing) ==
    IF obj \in removed THEN "raise"
    ELSE IF obj \in failing THEN "False"
    ELSE "verdict"

\* next_depth = depth - 1 if depth > 0 else 0, with the depth never lowered
next_depth_kept(depth) == depth

\* next_depth = depth - 1 if depth > 0 else 0
next_depth(depth) == IF depth > 0 THEN depth - 1 ELSE 0

\* process_with_depth_limit.  st holds the set `processed`, the calls of
\* process_feature made so far (<<object, result>>) and whether an exception
\* is on its way out; obj.Name of a removed object raises.
RECURSIVE process_with_depth_limit(_, _, _, _, _, _), process_children(_, _, _, _, _, _)
process_with_depth_limit(out, obj, depth, st, removed, failing) ==
    IF st.raised THEN st
    ELSE IF obj \in removed THEN [st EXCEPT !.raised = TRUE]
    ELSE IF obj \in st.processed THEN st
    ELSE LET r == process_feature_result(obj, removed, failing)
             st1 == [processed |-> st.processed \cup {obj},
                     calls |-> Append(st.calls, <<obj, r>>),
                     raised |-> r = "raise"]
         IN  IF st1.raised \/ depth = 1 THEN st1
             ELSE process_children(out, out[obj], next_depth(depth), st1,
                                   removed, failing)

process_children(out, children, depth, st, removed, failing) ==
    IF children = <<>> THEN st
    ELSE process_children(out, Tail(children), depth,
             process_with_depth_limit(out, Head(children), depth, st,
                                      removed, failing),
             removed, failing)

\* processed = set() of a fresh call
NoneProcessed == [processed |-> {}, calls |-> <<>>, raised |-> FALSE]

\* process_affected_features(obj): the objects fingerprinted by the call, on
\* a document none of whose objects is removed.
process_affected_features(obj) ==
    process_with_depth_limit(OutList, obj, dependency_depth, NoneProcessed,
                             {}, {}).processed

\* The objects fingerprinted by one batch sorted_objects[i:i+batch_size].
Batch(sorted, i) == {sorted[k] : k \in {j \in 1..Len(sorted) : j > i /\ j <= i + batch_size}}

Fingerprinted(sorted, i) ==
    UNION {process_affected_features(o) : o \in Batch(sorted, i)}

\* ------------------------------------------------------------------------
\* start_recompute_timer that leaves a running timer as it is
start_recompute_timer_not_rearming ==
    IF edit_mode_active \/ task_panel_active THEN recompute_timer
    ELSE IF recompute_timer >= 0 THEN recompute_timer
    ELSE recompute_delay

\* recompute_timer.stop(): the time left of the timer object stopped.
stop(t) == Inactive

\* start_recompute_timer: the new value of recompute_timer.
start_recompute_timer ==
    IF edit_mode_active \/ task_panel_active THEN recompute_timer
    ELSE recompute_delay

\* ------------------------------------------------------------------------
SchedulerInit ==
    /\ observer_active = TRUE
    /\ active = [document |-> TRUE, task_panel |-> TRUE, edit_mode |-> TRUE]
    /\ recompute_queue = {}
    /\ changed_properties = EmptyMap
    /\ pending_output = FALSE
    /\ recompute_timer = Inactive
    /\ task_panel_active = FALSE
    /\ changes_during_task = FALSE
    /\ edit_mode_active = FALSE
    /\ elapsed = 0
    /\ throttle_queue = EmptyMap
    /\ throttle_timer = Inactive
    /\ in_edit_last = FALSE
    /\ edit_timer = edit_check_interval
    /\ detected_panels = {}
    /\ edit_completion = <<>>
    /\ task_completion = <<>>
    /\ pc = "idle"
    /\ sorted_objects = <<>>
    /\ batch_i = 0
    /\ dirty = {}
    /\ arrived = {}
    /\ winChanged = FALSE

\* ------------------------------------------------------------------------
\* DocumentObserver

\* queue_change with props replacing the buffered set
queue_change_replacing(obj, props) ==
    /\ throttle_queue' =
           [n \in DOMAIN throttle_queue \cup {obj} |->
               IF n = obj THEN props ELSE throttle_queue[n]]
    /\ throttle_timer' = throttle_interval

\* queue_change(obj, props)
queue_change(obj, props) ==
    /\ throttle_queue' =
           [n \in DOMAIN throttle_queue \cup {obj} |->
               IF n = obj
               THEN (IF obj \in DOMAIN throttle_queue THEN throttle_queue[obj] ELSE {})
                        \cup props
               ELSE throttle_queue[n]]
    /\ throttle_timer' = throttle_interval

\* The history variables after a change of the objects `os` was accepted.
Accepted(os) ==
    /\ dirty' = dirty \cup os
    /\ arrived' = IF pc = "yield" THEN arrived \cup os ELSE arrived
    /\ winChanged' = (winChanged \/ Suspended)

\* The first early return without the test of the property name
Ignored_when_inactive_only(prop) == ~(active.document /\ observer_active)

\* The first early return of the two slots
Ignored(prop) == ~(active.document /\ observer_active) \/ prop \in ignored_props

\* time.time() - self.last_change_time < config["throttle_interval"] / 1000.0
Throttled == elapsed < throttle_interval

\* slotCreatedObject(obj)
slotCreatedObject(obj) ==
    /\ UNCHANGED <<obsVars, flagVars, passVars>>
    /\ IF ~(active.document /\ observer_active)
       THEN UNCHANGED <<aggVars, histVars>>
       ELSE IF Throttled
       THEN /\ queue_change(obj, {NewObject})
            /\ UNCHANGED <<recompute_queue, changed_properties, pending_output,
                           recompute_timer, changes_during_task, elapsed, histVars>>
       ELSE /\ elapsed' = 0
            /\ recompute_queue' = recompute_queue \cup {obj}
            /\ changed_properties' = Put(changed_properties, Label(obj), <<NewObject>>)
            /\ Accepted({obj})
            /\ UNCHANGED <<throttle_queue, throttle_timer>>
            /\ IF edit_mode_active \/ task_panel_active
               THEN /\ changes_during_task' = TRUE
                    /\ UNCHANGED <<pending_output, recompute_timer>>
               ELSE /\ pending_output' = TRUE
                    /\ recompute_timer' = start_recompute_timer
                    /\ UNCHANGED changes_during_task

\* slotChangedObject(obj, prop)
slotChangedObject(obj, prop) ==
    /\ UNCHANGED <<obsVars, flagVars, passVars>>
    /\ IF Ignored(prop)
       THEN UNCHANGED <<aggVars, histVars>>
       ELSE IF Throttled
       THEN /\ queue_change(obj, {prop})
            /\ UNCHANGED <<recompute_queue, changed_properties, pending_output,
                           recompute_timer, changes_during_task, elapsed, histVars>>
       ELSE /\ elapsed' = 0
            /\ recompute_queue' = recompute_queue \cup {obj}
            /\ changed_properties' = AppendNew(changed_properties, Label(obj), prop)
            /\ Accepted({obj})
            /\ UNCHANGED <<throttle_queue, throttle_timer>>
            /\ IF edit_mode_active \/ task_panel_active
               THEN /\ changes_during_task' = TRUE
                    /\ UNCHANGED <<pending_output, recompute_timer>>
               ELSE /\ pending_output' = TRUE
                    /\ recompute_timer' = start_recompute_timer
                    /\ UNCHANGED changes_during_task

\* changed_properties after the loop of process_throttled_changes, the set
\* props of each buffered object being iterated in the order ord[obj].
Flushed(cp, ord, names) ==
    [l \in DOMAIN cp \cup {Label(n) : n \in names} |->
        IF \E n \in names : Label(n) = l
        THEN LET n == CHOOSE m \in names : Label(m) = l
             IN  AppendAll(cp, l, ord[n])[l]
        ELSE cp[l]]

\* process_throttled_changes(), the timeout of throttle_timer
process_throttled_changes ==
    /\ throttle_timer = 0
    /\ UNCHANGED <<obsVars, flagVars, passVars>>
    /\ \E ord \in {f \in [DOMAIN throttle_queue -> UNION {Orders(throttle_queue[n]) : n \in DOMAIN throttle_queue}] :
                      \A n \in DOMAIN throttle_queue : f[n] \in Orders(throttle_queue[n])} :
          changed_properties' = Flushed(changed_properties, ord, DOMAIN throttle_queue)
    /\ recompute_queue' = recompute_queue \cup DOMAIN throttle_queue
    /\ Accepted(DOMAIN throttle_queue)
    /\ IF DOMAIN throttle_queue = {}
       THEN UNCHANGED <<changes_during_task, pending_output, recompute_timer>>
       ELSE IF edit_mode_active \/ task_panel_active
       THEN /\ changes_during_task' = TRUE
            /\ UNCHANGED <<pending_output, recompute_timer>>
       ELSE /\ pending_output' = TRUE
            /\ recompute_timer' = start_recompute_timer
            /\ UNCHANGED changes_during_task
    /\ throttle_queue' = EmptyMap
    /\ elapsed' = 0
    /\ throttle_timer' = Inactive

\* ------------------------------------------------------------------------
\* EditModeObserver.check_edit_mode, the timeout of the periodic timer;
\* in_edit is what the host reports at this poll.
check_edit_mode(in_edit) ==
    /\ edit_timer = 0
    /\ edit_timer' = edit_check_interval
    /\ UNCHANGED <<obsVars, passVars, recompute_queue, changed_properties,
                   pending_output, recompute_timer, elapsed, throttle_queue,
                   throttle_timer, task_panel_active, detected_panels,
                   task_completion, dirty, arrived>>
    /\ IF ~active.edit_mode \/ in_edit = in_edit_last
       THEN UNCHANGED <<in_edit_last, edit_mode_active, changes_during_task,
                        edit_completion, winChanged>>
       ELSE /\ in_edit_last' = in_edit
            /\ IF in_edit
               THEN /\ edit_mode_active' = TRUE
                    /\ changes_during_task' = FALSE
                    /\ winChanged' = (winChanged /\ Suspended)
                    /\ UNCHANGED edit_completion
               ELSE /\ edit_mode_active' = FALSE
                    /\ edit_completion' = Append(edit_completion, settle_delay)
                    /\ UNCHANGED <<changes_during_task, winChanged>>

\* ------------------------------------------------------------------------
\* TaskPanelObserver.eventFilter for a ChildAdded event of a widget named n
eventFilter_ChildAdded(n) ==
    /\ UNCHANGED <<obsVars, passVars, recompute_queue, changed_properties,
                   pending_output, recompute_timer, elapsed, throttle_queue,
                   throttle_timer, edit_mode_active, in_edit_last, edit_timer,
                   edit_completion, task_completion, dirty, arrived>>
    /\ IF active.task_panel /\ is_task_panel(n) /\ n \notin detected_panels
       THEN /\ detected_panels' = detected_panels \cup {n}
            /\ task_panel_active' = TRUE
            /\ changes_during_task' = FALSE
            /\ winChanged' = (winChanged /\ Suspended)
       ELSE UNCHANGED <<detected_panels, task_panel_active, changes_during_task,
                        winChanged>>

\* TaskPanelObserver.eventFilter for a ChildRemoved event of a widget named n
eventFilter_ChildRemoved(n) ==
    /\ UNCHANGED <<obsVars, passVars, aggVars, edit_mode_active, in_edit_last,
                   edit_timer, edit_completion, histVars>>
    /\ IF active.task_panel /\ n \in detected_panels
       THEN /\ detected_panels' = detected_panels \ {n}
            /\ IF detected_panels \ {n} = {}
               THEN /\ Len(task_completion) < MaxPending
                    /\ task_panel_active' = FALSE
                    /\ task_completion' = Append(task_completion, settle_delay)
               ELSE UNCHANGED <<task_panel_active, task_completion>>
       ELSE UNCHANGED <<detected_panels, task_panel_active, task_completion>>

\* ------------------------------------------------------------------------
\* recompute_queue.clear(); changed_properties.clear() of the discard branch
Discard ==
    /\ recompute_queue' = {}
    /\ changed_properties' = EmptyMap

\* Release taking its discard branch whatever changes_during_task says
Release_discarding ==
    /\ Discard
    /\ UNCHANGED <<pending_output, recompute_timer>>

\* Release deciding on the queue alone, without changes_during_task
Release_on_queue_alone ==
    IF recompute_queue # {}
    THEN /\ pending_output' = TRUE
         /\ recompute_timer' = start_recompute_timer
         /\ UNCHANGED <<recompute_queue, changed_properties>>
    ELSE /\ Discard
         /\ UNCHANGED <<pending_output, recompute_timer>>

\* The body shared by check_edit_completion and check_task_completion after
\* their guard: dispatch the queue, or discard it.
Release ==
    IF changes_during_task /\ recompute_queue # {}
    THEN /\ pending_output' = TRUE
         /\ recompute_timer' = start_recompute_timer
         /\ UNCHANGED <<recompute_queue, changed_properties>>
    ELSE /\ Discard
         /\ UNCHANGED <<pending_output, recompute_timer>>

\* check_edit_completion(), the timeout of a pending single shot
check_edit_completion ==
    /\ edit_completion # <<>>
    /\ Head(edit_completion) = 0
    /\ edit_completion' = Tail(edit_completion)
    /\ UNCHANGED <<obsVars, passVars, changes_during_task, elapsed, throttle_queue,
                   throttle_timer, task_panel_active, edit_mode_active, in_edit_last,
                   edit_timer, detected_panels, task_completion, histVars>>
    /\ IF task_panel_active
       THEN UNCHANGED <<recompute_queue, changed_properties, pending_output,
                        recompute_timer>>
       ELSE Release

\* check_task_completion(), the timeout of a pending single shot
check_task_completion ==
    /\ task_completion # <<>>
    /\ Head(task_completion) = 0
    /\ task_completion' = Tail(task_completion)
    /\ UNCHANGED <<obsVars, passVars, changes_during_task, elapsed, throttle_queue,
                   throttle_timer, task_panel_active, edit_mode_active, in_edit_last,
                   edit_timer, detected_panels, edit_completion, histVars>>
    /\ IF edit_mode_active
       THEN UNCHANGED <<recompute_queue, changed_properties, pending_output,
                        recompute_timer>>
       ELSE Release

\* ------------------------------------------------------------------------
\* on_recompute_timer with its first early return only
PassBlocked_on_empty_queue_only == recompute_queue = {}

\* The two early returns of on_recompute_timer
PassBlocked == recompute_queue = {} \/ edit_mode_active \/ task_panel_active

\* on_recompute_timer(), the timeout of recompute_timer, up to its first
\* processEvents(); order is the iteration order of list(recompute_queue).
on_recompute_timer ==
    /\ recompute_timer = 0
    /\ pc = "idle"
    /\ recompute_timer' = Inactive
    /\ UNCHANGED <<obsVars, flagVars, recompute_queue, changed_properties,
                   pending_output, changes_during_task, elapsed, throttle_queue,
                   throttle_timer, winChanged>>
    /\ IF PassBlocked
       THEN UNCHANGED <<passVars, dirty, arrived>>
       ELSE \E order \in Orders(recompute_queue) :
              LET sorted == sort_by_dependencies(order, OutList)
              IN  /\ sorted_objects' = sorted
                  /\ batch_i' = 0
                  /\ pc' = "yield"
                  /\ dirty' = dirty \ Fingerprinted(sorted, 0)
                  /\ arrived' = {}

\* The end of a pass without changed_properties.clear()
Drain_without_record ==
    /\ recompute_queue' = {}
    /\ changed_properties' = changed_properties
    /\ pending_output' = FALSE

\* recompute_queue.clear(); changed_properties.clear(); pending_output = False
\* at the end of a pass
Drain ==
    /\ recompute_queue' = {}
    /\ changed_properties' = EmptyMap
    /\ pending_output' = FALSE

\* on_recompute_timer() from the return of processEvents(): the next batch
\* and its processEvents(), or the end of the pass.
on_recompute_timer_resume ==
    /\ pc = "yield"
    /\ UNCHANGED <<obsVars, flagVars, changes_during_task, elapsed, throttle_queue,
                   throttle_timer, recompute_timer, winChanged>>
    /\ IF batch_i + batch_size < Len(sorted_objects)
       THEN /\ batch_i' = batch_i + batch_size
            /\ dirty' = dirty \ Fingerprinted(sorted_objects, batch_i + batch_size)
            /\ UNCHANGED <<pc, sorted_objects, recompute_queue, changed_properties,
                           pending_output, arrived>>
       ELSE /\ Drain
            /\ pc' = "idle"
            /\ sorted_objects' = <<>>
            /\ batch_i' = 0
            /\ arrived' = {}
            /\ UNCHANGED dirty

\* ------------------------------------------------------------------------
\* Quantum milliseconds pass in the host's event loop: no handler is running
\* and no timer is due.
Tick ==
    /\ pc = "idle"
    /\ recompute_timer # 0 /\ throttle_timer # 0 /\ edit_timer # 0
    /\ \A k \in 1..Len(edit_completion) : edit_completion[k] # 0
    /\ \A k \in 1..Len(task_completion) : task_completion[k] # 0
    /\ recompute_timer' = Dec(recompute_timer)
    /\ throttle_timer' = Dec(throttle_timer)
    /\ edit_timer' = Dec(edit_timer)
    /\ edit_completion' = [k \in 1..Len(edit_completion) |-> Dec(edit_completion[k])]
    /\ task_completion' = [k \in 1..Len(task_completion) |-> Dec(task_completion[k])]
    /\ elapsed' = Min(elapsed + Quantum, throttle_interval)
    /\ UNCHANGED <<obsVars, passVars, histVars, recompute_queue, changed_properties,
                   pending_output, changes_during_task, throttle_queue,
                   task_panel_active, edit_mode_active, in_edit_last, detected_panels>>

\* ------------------------------------------------------------------------
\* A call of sort_by_dependencies on a document of SortObjs objects.
MaxSortObjs == 3
SortObjs == 1..MaxSortObjs

\* The members of a set of object numbers as a list, ascending or descending.
RECURSIVE Ascending(_)
Ascending(S) ==
    IF S = {} THEN <<>>
    ELSE LET m == CHOOSE x \in S : \A y \in S : x <= y
         IN  <<m>> \o Ascending(S \ {m})

Reverse(s) == [k \in 1..Len(s) |-> s[Len(s) + 1 - k]]

\* Lists without repetition over S.
Lists(S) == UNION {Orders(T) : T \in SUBSET S}

SortIdle ==
    /\ sort_out = [o \in SortObjs |-> <<>>]
    /\ sort_objects = <<>>
    /\ sort_result = <<>>
    /\ sort_done = FALSE

SortInit ==
    /\ \E deps \in [SortObjs -> SUBSET SortObjs], desc \in BOOLEAN :
          /\ \A o \in SortObjs : o \notin deps[o]
          /\ sort_out = [o \in SortObjs |->
                            IF desc THEN Reverse(Ascending(deps[o]))
                            ELSE Ascending(deps[o])]
    /\ sort_objects \in Lists(SortObjs)
    /\ sort_result = <<>>
    /\ sort_done = FALSE

SortCall ==
    /\ ~sort_done
    /\ sort_result' = sort_by_dependencies(sort_objects, sort_out)
    /\ sort_done' = TRUE
    /\ UNCHANGED <<sort_out, sort_objects>>

\* ------------------------------------------------------------------------
\* The fingerprint engine on one object of the document, a Part::Box.
MaxClock == 6

obj_Name == "Box"
obj_TypeId == "Part::Box"
Lengths == {10, 12}

important_props(TypeId) ==
    IF TypeId = "Part::Box" THEN {"Length", "Width", "Height", "Placement"}
    ELSE {}

general_props == {"Label", "Placement", "Shape"}

\* str(value)
str(value) == <<"str", value>>

\* get_feature_data(obj)["Parameters"]
Parameters(a) ==
    LET relevant_props == (important_props(obj_TypeId) \cup general_props) \cap DOMAIN a
    IN  [prop \in relevant_props |-> str(a[prop])]

\* get_feature_data(obj)
get_feature_data(a) ==
    [Type |-> obj_TypeId, Label |-> a["Label"], Parameters |-> Parameters(a)]

\* calculate_hash(data): the digest of the serialised reduced_data, one
\* digest per value of reduced_data.
calculate_hash(data) == <<"md5", data.Type, data.Parameters>>

\* history in place of history[-n:]
LastN_all(history, n) == history

\* history[-n:]
LastN(history, n) ==
    IF Len(history) <= n THEN history
    ELSE SubSeq(history, Len(history) - n + 1, Len(history))

\* The places of process_feature where the host may raise: nowhere, while
\* the data is read and hashed, or at the assignment of obj.FeatureHash.
Failures == {"none", "hash", "FeatureHash"}

\* The fast path: a cache entry not older than the object's TimeStamp.
cache_hit ==
    /\ obj_Name \in DOMAIN feature_cache
    /\ (IF has_TimeStamp THEN TimeStamp ELSE 0) <= feature_cache[obj_Name].time

\* feature_cache[obj_id] = (time.time(), feature_hash)
cache_store(feature_hash) ==
    feature_cache' = [n \in DOMAIN feature_cache \cup {obj_Name} |->
                         IF n = obj_Name THEN [time |-> clock, hash |-> feature_hash]
                         ELSE feature_cache[n]]

\* The else branch without its assignment to feature_cache
unchanged_hash_keeps_cache(feature_hash) ==
    /\ UNCHANGED feature_cache
    /\ UNCHANGED <<FeatureHash, FeatureHistory>>
    /\ returned' = FALSE

\* The else branch of process_feature: the stored hash is the new one.
unchanged_hash(feature_hash) ==
    /\ cache_store(feature_hash)
    /\ UNCHANGED <<FeatureHash, FeatureHistory>>
    /\ returned' = FALSE

\* The branch taken when the stored hash differs, without its assignments to
\* obj.FeatureHash and feature_cache
changed_hash_without_store(feature_hash, fail) ==
    LET history == FeatureHistory
        history_entry == [time |-> clock, hash |-> feature_hash]
    IN  /\ IF history # <<>> /\ history[Len(history)].hash = feature_hash
           THEN UNCHANGED FeatureHistory
           ELSE FeatureHistory' = LastN(Append(history, history_entry), history_length)
        /\ UNCHANGED <<FeatureHash, feature_cache>>
        /\ returned' = (fail # "FeatureHash")

\* The branch of process_feature taken when the stored hash differs.
changed_hash(feature_hash, fail) ==
    LET history == FeatureHistory
        history_entry == [time |-> clock, hash |-> feature_hash]
    IN  /\ IF history # <<>> /\ history[Len(history)].hash = feature_hash
           THEN UNCHANGED FeatureHistory
           ELSE FeatureHistory' = LastN(Append(history, history_entry), history_length)
        /\ IF fail = "FeatureHash"
           THEN /\ UNCHANGED <<FeatureHash, feature_cache>>
                /\ returned' = FALSE
           ELSE /\ FeatureHash' = feature_hash
                /\ cache_store(feature_hash)
                /\ returned' = TRUE

\* process_feature(obj); fail is the place where the host raises
process_feature(fail) ==
    /\ clock < MaxClock
    /\ clock' = clock + 1
    /\ UNCHANGED <<attrs, has_TimeStamp, TimeStamp>>
    /\ IF cache_hit \/ fail = "hash"
       THEN /\ returned' = FALSE
            /\ UNCHANGED <<FeatureHash, FeatureHistory, feature_cache>>
       ELSE LET feature_hash == calculate_hash(get_feature_data(attrs))
            IN  IF FeatureHash # feature_hash
                THEN changed_hash(feature_hash, fail)
                ELSE unchanged_hash(feature_hash)

\* The host sets property prop of the object to value.
SetAttr(prop, value) ==
    /\ clock < MaxClock
    /\ clock' = clock + 1
    /\ attrs' = [attrs EXCEPT ![prop] = value]
    /\ TimeStamp' = IF has_TimeStamp THEN clock ELSE TimeStamp
    /\ UNCHANGED <<has_TimeStamp, FeatureHash, FeatureHistory, feature_cache, returned>>

FeatureIdle ==
    /\ clock = 1
    /\ attrs = [Label |-> "Box", Length |-> 10, Visibility |-> TRUE]
    /\ has_TimeStamp = FALSE
    /\ TimeStamp = 0
    /\ FeatureHash = <<>>
    /\ FeatureHistory = <<>>
    /\ feature_cache = [n \in {} |-> [time |-> 0, hash |-> <<>>]]
    /\ returned = FALSE

\* The hash of the object with its Length set to len.
HashOf(len) ==
    calculate_hash(get_feature_data([Label |-> "Box", Length |-> len, Visibility |-> TRUE]))

\* A FeatureHistory of n entries as a former session left it: consecutive
\* entries differ in their hash, the last one carries the hash h, and every
\* entry is older than the session.
LoadedHistory(n, h) ==
    [k \in 1..n |-> [time |-> k - n,
                     hash |-> IF (n - k) % 2 = 0 THEN h
                              ELSE CHOOSE g \in {HashOf(l) : l \in Lengths} : g # h]]

\* A session starts with an empty cache, on an object that is new (n = 0) or
\* was loaded with the hash and the history of n entries a former session
\* stored.
FeatureInit ==
    /\ clock = 1
    /\ attrs = [Label |-> "Box", Length |-> 10, Visibility |-> TRUE]
    /\ has_TimeStamp \in BOOLEAN
    /\ TimeStamp = 0
    /\ \E n \in 0..history_length :
          LET h == calculate_hash(get_feature_data(attrs))
          IN  /\ FeatureHash = IF n > 0 THEN h ELSE <<>>
              /\ FeatureHistory = LoadedHistory(n, h)
    /\ feature_cache = [n \in {} |-> [time |-> 0, hash |-> <<>>]]
    /\ returned = FALSE

\* ------------------------------------------------------------------------
\* History of the calls on the object: the log of every history entry ever
\* appended (an entry is due when a call computes a hash that differs from
\* the stored hash and from the hash of the newest entry), and the way the
\* last call ended.
Computes(fail) == ~cache_hit /\ fail # "hash"

Fails(fail) ==
    /\ ~cache_hit
    /\ \/ fail = "hash"
       \/ fail = "FeatureHash"
            /\ FeatureHash # calculate_hash(get_feature_data(attrs))

LogCall(fail) ==
    LET h == calculate_hash(get_feature_data(attrs))
    IN  /\ fullLog' = IF /\ Computes(fail)
                          /\ FeatureHash # h
                          /\ (fullLog = <<>> \/ fullLog[Len(fullLog)].hash # h)
                       THEN Append(fullLog, [time |-> clock, hash |-> h])
                       ELSE fullLog
        /\ lastCall' = IF Fails(fail) THEN "failed" ELSE "ok"

LogSet ==
    /\ lastCall' = "none"
    /\ UNCHANGED fullLog

LogIdle ==
    /\ fullLog = <<>>
    /\ lastCall = "none"

LogInit ==
    /\ fullLog = FeatureHistory
    /\ lastCall = "none"

\* ------------------------------------------------------------------------
\* History of one edit window: the property names accepted for each object
\* while edit_mode_active was true and not fingerprinted since, from the poll
\* that set the flag to the check_edit_completion that handles its release.
NoWindow == [o \in Objs |-> {}]

WinEvent(obj, prop) ==
    winProps' = IF edit_mode_active /\ ~Ignored(prop) /\ ~Throttled
                THEN [winProps EXCEPT ![obj] = @ \cup {prop}]
                ELSE winProps

WinFlush ==
    winProps' = IF edit_mode_active
                THEN [o \in Objs |-> IF o \in DOMAIN throttle_queue
                                     THEN winProps[o] \cup throttle_queue[o]
                                     ELSE winProps[o]]
                ELSE winProps

WinPoll(in_edit) ==
    winProps' = IF active.edit_mode /\ in_edit /\ ~in_edit_last THEN NoWindow
                ELSE winProps

WinPass ==
    winProps' = [o \in Objs |-> IF o \in dirty /\ o \notin dirty' THEN {}
                                 ELSE winProps[o]]

\* History of one burst of events for BurstObj: events with no time between
\* them.  A burst starts with the first event after time has passed and
\* after the throttle buffer has given up the object.
MaxBurst == 3
BurstObj == "Sketch"

BurstEvent(obj, prop) ==
    IF obj # BurstObj \/ Ignored(prop)
       \/ (~burstOpen /\ BurstObj \in DOMAIN throttle_queue)
    THEN UNCHANGED burstVars
    ELSE /\ burstN' = IF burstOpen THEN Min(burstN + 1, MaxBurst) ELSE 1
         /\ burstAggs' = (IF burstOpen THEN burstAggs ELSE 0)
                             + (IF Throttled THEN 0 ELSE 1)
         /\ burstProps' = (IF burstOpen THEN burstProps ELSE {}) \cup {prop}
         /\ burstOpen' = TRUE

BurstFlush ==
    IF BurstObj \in DOMAIN throttle_queue
    THEN /\ burstAggs' = burstAggs + 1
         /\ burstOpen' = FALSE
         /\ UNCHANGED <<burstN, burstProps>>
    ELSE UNCHANGED burstVars

BurstTick ==
    /\ burstOpen' = FALSE
    /\ UNCHANGED <<burstN, burstAggs, burstProps>>

GhostIdle ==
    /\ winProps = NoWindow
    /\ burstN = 0
    /\ burstAggs = 0
    /\ burstProps = {}
    /\ burstOpen = FALSE

\* Property names of the notifications in SpecEdit and SpecThrottle.
BurstEventProps == {"Length", "Placement", "Visibility"}

\* ------------------------------------------------------------------------
\* toggle_toponaming and the two functions behind it.  The three observer
\* objects exist since start_tracking, so setup_observers creates none.

\* setup_observers()
setup_observers ==
    /\ observer_active' = TRUE
    /\ UNCHANGED <<active, aggVars, flagVars, passVars, histVars>>

\* remove_observers()
remove_observers ==
    /\ observer_active' = FALSE
    /\ active' = [document |-> FALSE, task_panel |-> FALSE, edit_mode |-> FALSE]
    /\ edit_timer' = Inactive
    /\ UNCHANGED <<aggVars, passVars, histVars, task_panel_active, edit_mode_active,
                   in_edit_last, detected_panels, edit_completion, task_completion>>

\* toggle_toponaming(checked), the toggled signal of the tool bar's check box,
\* which is checked while observer_active is true
toggle_toponaming(checked) ==
    /\ checked # observer_active
    /\ IF checked THEN setup_observers ELSE remove_observers

\* ------------------------------------------------------------------------
\* History of the objects a blocked firing of the debounce timer has left in
\* the queue.
StallKeep == stalled' = stalled \cap recompute_queue'

StallFire ==
    stalled' = (IF Suspended THEN stalled \cup recompute_queue ELSE stalled)
                  \cap recompute_queue'

StallIdle == stalled = {}

\* ------------------------------------------------------------------------
\* One recompute pass over a document of PassObjs objects, some of which
\* make the host raise inside process_feature and some of which the host
\* removes between their change and the firing of the debounce timer.
MaxPassObjs == 3
PassObjs == 1..MaxPassObjs

\* for obj in batch: process_affected_features(obj), each with a set
\* `processed` of its own; calls collects the process_feature calls.
RECURSIVE process_batch(_, _, _, _, _)
process_batch(out, batch, calls, removed, failing) ==
    IF batch = <<>> THEN [processed |-> {}, calls |-> calls, raised |-> FALSE]
    ELSE LET st == process_with_depth_limit(out, Head(batch), dependency_depth,
                       [processed |-> {}, calls |-> calls, raised |-> FALSE],
                       removed, failing)
         IN  IF st.raised THEN st
             ELSE process_batch(out, Tail(batch), st.calls, removed, failing)

RunIdle ==
    /\ run_out = [o \in PassObjs |-> <<>>]
    /\ run_queue = <<>>
    /\ run_removed = {}
    /\ run_failing = {}
    /\ run_calls = <<>>
    /\ run_pc = "idle"
    /\ run_cleared = FALSE

\* The debounce timer is running on a non-empty queue, outside suspension.
RunInit ==
    /\ \E deps \in [PassObjs -> SUBSET PassObjs] :
          /\ \A o \in PassObjs : o \notin deps[o]
          /\ run_out = [o \in PassObjs |-> Ascending(deps[o])]
    /\ run_queue \in Lists(PassObjs) \ {<<>>}
    /\ run_removed = {}
    /\ run_failing \in SUBSET PassObjs
    /\ run_calls = <<>>
    /\ run_pc = "timer"
    /\ run_cleared = FALSE

\* The host removes object o from the document before the timer fires; the
\* links of the other objects to it go with it.
host_removes(o) ==
    /\ run_pc = "timer"
    /\ o \notin run_removed
    /\ run_removed' = run_removed \cup {o}
    /\ run_out' = [x \in PassObjs |-> SelectSeq(run_out[x], LAMBDA c : c # o)]
    /\ UNCHANGED <<run_queue, run_failing, run_calls, run_pc, run_cleared>>

\* on_recompute_timer() past its early returns, up to processEvents():
\* sort_by_dependencies reads obj.Name and obj.OutList of every queued
\* object, which raises on a removed one; an exception ends the handler.
on_recompute_timer_pass ==
    /\ run_pc = "timer"
    /\ LET st == IF Range(run_queue) \cap run_removed # {}
                 THEN [processed |-> {}, calls |-> <<>>, raised |-> TRUE]
                 ELSE process_batch(run_out, sort_by_dependencies(run_queue, run_out),
                                    <<>>, run_removed, run_failing)
       IN  /\ run_calls' = st.calls
           /\ run_pc' = IF st.raised THEN "raised" ELSE "yield"
    /\ UNCHANGED <<run_out, run_queue, run_removed, run_failing, run_cleared>>

\* on_recompute_timer() from the return of processEvents() to its end
on_recompute_timer_clear ==
    /\ run_pc = "yield"
    /\ run_cleared' = TRUE
    /\ run_pc' = "done"
    /\ UNCHANGED <<run_out, run_queue, run_removed, run_failing, run_calls>>

\* ------------------------------------------------------------------------
\* One call process_with_depth_limit(obj, depth) on a document of DepthObjs
\* objects.
MaxDepthObjs == 4
DepthObjs == 1..MaxDepthObjs

DepthIdle ==
    /\ depth_out = [o \in DepthObjs |-> <<>>]
    /\ depth_obj = 1
    /\ depth_d = 0
    /\ depth_calls = <<>>
    /\ depth_done = FALSE

DepthInit ==
    /\ \E deps \in [DepthObjs -> SUBSET DepthObjs], desc \in BOOLEAN :
          /\ \A o \in DepthObjs : o \notin deps[o]
          /\ depth_out = [o \in DepthObjs |->
                             IF desc THEN Reverse(Ascending(deps[o]))
                             ELSE Ascending(deps[o])]
    /\ depth_obj \in DepthObjs
    /\ depth_d \in 0..dependency_depth
    /\ depth_calls = <<>>
    /\ depth_done = FALSE

DepthCall ==
    /\ ~depth_done
    /\ LET st == process_with_depth_limit(depth_out, depth_obj, depth_d,
                                          NoneProcessed, {}, {})
       IN  depth_calls' = [k \in 1..Len(st.calls) |-> st.calls[k][1]]
    /\ depth_done' = TRUE
    /\ UNCHANGED <<depth_out, depth_obj, depth_d>>

\* ------------------------------------------------------------------------
\* History of the debounce: the quiet time and the timer objects replaced.

\* The earlier timer objects still running once start_recompute_timer has
\* stopped the current one and replaced it.
Replaced == (replaced \cup {stop(recompute_timer)}) \ {Inactive}

\* A slot or the throttle flush has run; accepted says whether it accepted
\* a signal.  Accepted while not suspended, it calls start_recompute_timer.
DebSignal(accepted) ==
    IF accepted /\ ~Suspended
    THEN quiet' = 0 /\ replaced' = Replaced
    ELSE UNCHANGED debVars

\* A completion handler has run; it calls start_recompute_timer on its
\* dispatch branch, which returns early under suspension.
DebRelease(blocked) ==
    /\ replaced' = IF ~blocked /\ changes_during_task /\ recompute_queue # {} /\ ~Suspended
                   THEN Replaced ELSE replaced
    /\ UNCHANGED quiet

DebTick ==
    /\ quiet' = Min(quiet + Quantum, recompute_delay)
    /\ replaced' = {Dec(t) : t \in replaced} \ {0}

DebIdle == quiet = recompute_delay /\ replaced = {}

\* ------------------------------------------------------------------------
\* History of the notifications dropped for their property name.
FilterProps == Props \cup {"Visibility", "FeatureHash", "EditMode"}

FilterEvent(prop) ==
    filtered' = IF prop \in ignored_props THEN filtered \cup {prop} ELSE {}

FilterOther == filtered' = {}

FilterIdle == filtered = {}

\* ------------------------------------------------------------------------
\* History of the changes accepted in normal mode and since the entry into
\* suspension.

\* A slot or the throttle flush has accepted a change of the objects os.
LossAccept(os) ==
    /\ normalPending' = IF Suspended THEN normalPending ELSE normalPending \cup os
    /\ sinceEntry' = sinceEntry \cup os

\* A detector has run: suspension is entered when a flag is set with none set.
LossFlag ==
    /\ sinceEntry' = IF ~Suspended /\ (edit_mode_active' \/ task_panel_active')
                     THEN {} ELSE sinceEntry
    /\ UNCHANGED normalPending

\* The debounce timer has fired: a pass takes its snapshot.
LossFire ==
    /\ normalPending' = IF pc' = "yield" THEN normalPending \ Range(sorted_objects')
                        ELSE normalPending
    /\ UNCHANGED sinceEntry

\* The queue was cleared, or left alone, by a pass or a completion handler.
LossClear ==
    /\ sinceEntry' = sinceEntry \cap recompute_queue'
    /\ UNCHANGED normalPending

LossIdle == normalPending = {} /\ sinceEntry = {}

MoreIdle ==
    LogIdle /\ StallIdle /\ RunIdle /\ DepthIdle /\ DebIdle /\ FilterIdle /\ LossIdle

\* ------------------------------------------------------------------------
Init == SchedulerInit /\ SortIdle /\ FeatureIdle /\ GhostIdle /\ MoreIdle

Next ==
    \/ (\E o \in CreatedObjs : slotCreatedObject(o)) /\ UNCHANGED auxVars
    \/ (\E o \in Objs, p \in EventProps : slotChangedObject(o, p)) /\ UNCHANGED auxVars
    \/ process_throttled_changes /\ UNCHANGED auxVars
    \/ (\E b \in BOOLEAN : check_edit_mode(b)) /\ UNCHANGED auxVars
    \/ (\E n \in WidgetNames : eventFilter_ChildAdded(n)) /\ UNCHANGED auxVars
    \/ (\E n \in WidgetNames : eventFilter_ChildRemoved(n)) /\ UNCHANGED auxVars
    \/ check_edit_completion /\ UNCHANGED auxVars
    \/ check_task_completion /\ UNCHANGED auxVars
    \/ on_recompute_timer /\ UNCHANGED auxVars
    \/ on_recompute_timer_resume /\ UNCHANGED auxVars
    \/ Tick /\ UNCHANGED auxVars

Spec == Init /\ [][Next]_vars

InitSort == SchedulerInit /\ SortInit /\ FeatureIdle /\ GhostIdle /\ MoreIdle

NextSort == SortCall /\ UNCHANGED <<schedVars, featVars, winVars, burstVars, moreVars>>

SpecSort == InitSort /\ [][NextSort]_vars

\* The call runs to its return.
SpecSortLive == InitSort /\ [][NextSort]_vars /\ WF_vars(NextSort)

InitFeature ==
    /\ SchedulerInit /\ SortIdle /\ FeatureInit /\ GhostIdle
    /\ LogInit /\ StallIdle /\ RunIdle /\ DepthIdle /\ DebIdle /\ FilterIdle
    /\ LossIdle

NextFeature ==
    \/ (\E fail \in Failures : process_feature(fail) /\ LogCall(fail))
          /\ UNCHANGED <<schedVars, sortVars, winVars, burstVars, stallVars, runVars, depthVars,
                       debVars, filterVars, lossVars>>
    \/ (\E v \in Lengths : SetAttr("Length", v)) /\ LogSet
          /\ UNCHANGED <<schedVars, sortVars, winVars, burstVars, stallVars, runVars, depthVars,
                       debVars, filterVars, lossVars>>
    \/ (\E v \in BOOLEAN : SetAttr("Visibility", v)) /\ LogSet
          /\ UNCHANGED <<schedVars, sortVars, winVars, burstVars, stallVars, runVars, depthVars,
                       debVars, filterVars, lossVars>>

SpecFeature == InitFeature /\ [][NextFeature]_vars

\* The scheduler in a session in which no task panel opens, with the history
\* of the edit window.
NextEdit ==
    \/ (\E o \in Objs, p \in BurstEventProps : slotChangedObject(o, p) /\ WinEvent(o, p))
          /\ UNCHANGED <<sortVars, featVars, burstVars, moreVars>>
    \/ process_throttled_changes /\ WinFlush /\ UNCHANGED <<sortVars, featVars, burstVars, moreVars>>
    \/ (\E b \in BOOLEAN : check_edit_mode(b) /\ WinPoll(b))
          /\ UNCHANGED <<sortVars, featVars, burstVars, moreVars>>
    \/ check_edit_completion /\ winProps' = NoWindow
          /\ UNCHANGED <<sortVars, featVars, burstVars, moreVars>>
    \/ on_recompute_timer /\ WinPass /\ UNCHANGED <<sortVars, featVars, burstVars, moreVars>>
    \/ on_recompute_timer_resume /\ WinPass /\ UNCHANGED <<sortVars, featVars, burstVars, moreVars>>
    \/ Tick /\ UNCHANGED auxVars

SpecEdit == Init /\ [][NextEdit]_vars

\* The scheduler in a session without edit mode and task panels, with the
\* history of one burst.
NextThrottle ==
    \/ (\E o \in Objs, p \in BurstEventProps : slotChangedObject(o, p) /\ BurstEvent(o, p))
          /\ UNCHANGED <<sortVars, featVars, winVars, moreVars>>
    \/ process_throttled_changes /\ BurstFlush /\ UNCHANGED <<sortVars, featVars, winVars, moreVars>>
    \/ check_edit_mode(FALSE) /\ UNCHANGED auxVars
    \/ on_recompute_timer /\ UNCHANGED auxVars
    \/ on_recompute_timer_resume /\ UNCHANGED auxVars
    \/ Tick /\ BurstTick /\ UNCHANGED <<sortVars, featVars, winVars, moreVars>>

SpecThrottle == Init /\ [][NextThrottle]_vars

\* The scheduler with the history of the blocked firings.
stallRest == <<sortVars, featVars, winVars, burstVars, logVars, runVars, depthVars,
               debVars, filterVars, lossVars>>

NextStall ==
    \/ (\E o \in CreatedObjs : slotCreatedObject(o)) /\ StallKeep /\ UNCHANGED stallRest
    \/ (\E o \in Objs, p \in EventProps : slotChangedObject(o, p)) /\ StallKeep
          /\ UNCHANGED stallRest
    \/ process_throttled_changes /\ StallKeep /\ UNCHANGED stallRest
    \/ (\E b \in BOOLEAN : check_edit_mode(b)) /\ StallKeep /\ UNCHANGED stallRest
    \/ (\E n \in WidgetNames : eventFilter_ChildAdded(n)) /\ StallKeep /\ UNCHANGED stallRest
    \/ (\E n \in WidgetNames : eventFilter_ChildRemoved(n)) /\ StallKeep
          /\ UNCHANGED stallRest
    \/ check_edit_completion /\ StallKeep /\ UNCHANGED stallRest
    \/ check_task_completion /\ StallKeep /\ UNCHANGED stallRest
    \/ on_recompute_timer /\ StallFire /\ UNCHANGED stallRest
    \/ on_recompute_timer_resume /\ StallKeep /\ UNCHANGED stallRest
    \/ Tick /\ StallKeep /\ UNCHANGED stallRest

SpecStall == Init /\ [][NextStall]_vars

\* The scheduler in a session without task panels, with the tool bar's
\* on/off switch.
NextToggle ==
    \/ (\E o \in CreatedObjs : slotCreatedObject(o)) /\ UNCHANGED auxVars
    \/ (\E o \in Objs, p \in EventProps : slotChangedObject(o, p)) /\ UNCHANGED auxVars
    \/ process_throttled_changes /\ UNCHANGED auxVars
    \/ (\E b \in BOOLEAN : check_edit_mode(b)) /\ UNCHANGED auxVars
    \/ check_edit_completion /\ UNCHANGED auxVars
    \/ on_recompute_timer /\ UNCHANGED auxVars
    \/ on_recompute_timer_resume /\ UNCHANGED auxVars
    \/ (\E checked \in BOOLEAN : toggle_toponaming(checked)) /\ UNCHANGED auxVars
    \/ Tick /\ UNCHANGED auxVars

SpecToggle == Init /\ [][NextToggle]_vars

\* The scheduler with the history of the debounce.
debRest == <<sortVars, featVars, winVars, burstVars, logVars, stallVars, runVars,
             depthVars, filterVars, lossVars>>

NextDebounce ==
    \/ (\E o \in CreatedObjs :
           slotCreatedObject(o)
              /\ DebSignal(active.document /\ observer_active /\ ~Throttled))
          /\ UNCHANGED debRest
    \/ (\E o \in Objs, p \in EventProps :
           slotChangedObject(o, p) /\ DebSignal(~Ignored(p) /\ ~Throttled))
          /\ UNCHANGED debRest
    \/ process_throttled_changes /\ DebSignal(DOMAIN throttle_queue # {})
          /\ UNCHANGED debRest
    \/ (\E b \in BOOLEAN : check_edit_mode(b)) /\ UNCHANGED auxVars
    \/ (\E n \in WidgetNames : eventFilter_ChildAdded(n)) /\ UNCHANGED auxVars
    \/ (\E n \in WidgetNames : eventFilter_ChildRemoved(n)) /\ UNCHANGED auxVars
    \/ check_edit_completion /\ DebRelease(task_panel_active) /\ UNCHANGED debRest
    \/ check_task_completion /\ DebRelease(edit_mode_active) /\ UNCHANGED debRest
    \/ on_recompute_timer /\ UNCHANGED auxVars
    \/ on_recompute_timer_resume /\ UNCHANGED auxVars
    \/ Tick /\ DebTick /\ UNCHANGED debRest

SpecDebounce == Init /\ [][NextDebounce]_vars

\* The scheduler in a session without task panels, with notifications of
\* ignored properties and their history.
filterRest == <<sortVars, featVars, winVars, burstVars, logVars, stallVars, runVars,
                depthVars, debVars, lossVars>>

NextFilter ==
    \/ (\E o \in CreatedObjs : slotCreatedObject(o)) /\ FilterOther
          /\ UNCHANGED filterRest
    \/ (\E o \in Objs, p \in FilterProps : slotChangedObject(o, p) /\ FilterEvent(p))
          /\ UNCHANGED filterRest
    \/ process_throttled_changes /\ FilterOther /\ UNCHANGED filterRest
    \/ (\E b \in BOOLEAN : check_edit_mode(b)) /\ FilterOther /\ UNCHANGED filterRest
    \/ check_edit_completion /\ FilterOther /\ UNCHANGED filterRest
    \/ on_recompute_timer /\ FilterOther /\ UNCHANGED filterRest
    \/ on_recompute_timer_resume /\ FilterOther /\ UNCHANGED filterRest
    \/ Tick /\ FilterOther /\ UNCHANGED filterRest

SpecFilter == Init /\ [][NextFilter]_vars

\* The scheduler with the history of the changes accepted in normal mode.
lossRest == <<sortVars, featVars, winVars, burstVars, logVars, stallVars, runVars,
              depthVars, debVars, filterVars>>

NextLoss ==
    \/ (\E o \in CreatedObjs :
           /\ slotCreatedObject(o)
           /\ IF active.document /\ observer_active /\ ~Throttled
              THEN LossAccept({o}) ELSE UNCHANGED lossVars)
          /\ UNCHANGED lossRest
    \/ (\E o \in Objs, p \in EventProps :
           /\ slotChangedObject(o, p)
           /\ IF ~Ignored(p) /\ ~Throttled
              THEN LossAccept({o}) ELSE UNCHANGED lossVars)
          /\ UNCHANGED lossRest
    \/ process_throttled_changes /\ LossAccept(DOMAIN throttle_queue)
          /\ UNCHANGED lossRest
    \/ (\E b \in BOOLEAN : check_edit_mode(b)) /\ LossFlag /\ UNCHANGED lossRest
    \/ (\E n \in WidgetNames : eventFilter_ChildAdded(n)) /\ LossFlag
          /\ UNCHANGED lossRest
    \/ (\E n \in WidgetNames : eventFilter_ChildRemoved(n)) /\ LossFlag
          /\ UNCHANGED lossRest
    \/ check_edit_completion /\ LossClear /\ UNCHANGED lossRest
    \/ check_task_completion /\ LossClear /\ UNCHANGED lossRest
    \/ on_recompute_timer /\ LossFire /\ UNCHANGED lossRest
    \/ on_recompute_timer_resume /\ LossClear /\ UNCHANGED lossRest
    \/ Tick /\ UNCHANGED auxVars

SpecLoss == Init /\ [][NextLoss]_vars

InitPass ==
    /\ SchedulerInit /\ SortIdle /\ FeatureIdle /\ GhostIdle
    /\ LogIdle /\ StallIdle /\ RunInit /\ DepthIdle /\ DebIdle /\ FilterIdle
    /\ LossIdle

passRest == <<schedVars, sortVars, featVars, winVars, burstVars, logVars, stallVars,
              depthVars, debVars, filterVars, lossVars>>

NextPass ==
    \/ (\E o \in PassObjs : host_removes(o)) /\ UNCHANGED passRest
    \/ on_recompute_timer_pass /\ UNCHANGED passRest
    \/ on_recompute_timer_clear /\ UNCHANGED passRest

SpecPass == InitPass /\ [][NextPass]_vars

InitDepth ==
    /\ SchedulerInit /\ SortIdle /\ FeatureIdle /\ GhostIdle
    /\ LogIdle /\ StallIdle /\ RunIdle /\ DepthInit /\ DebIdle /\ FilterIdle
    /\ LossIdle

NextDepth ==
    DepthCall /\ UNCHANGED <<schedVars, sortVars, featVars, winVars, burstVars, logVars,
                             stallVars, runVars, debVars, filterVars, lossVars>>

SpecDepth == InitDepth /\ [][NextDepth]_vars

\* ========================================================================
\* Properties of the scheduler (specification Spec)

Notification ==
    \/ \E o \in CreatedObjs : slotCreatedObject(o)
    \/ \E o \in Objs, p \in EventProps : slotChangedObject(o, p)
    \/ process_throttled_changes

\* A step that arms (or re-arms) the debounce timer.
Armed == recompute_timer' = recompute_delay /\ recompute_timer # recompute_delay

\* A step that starts a recompute pass.
PassStarted == pc = "idle" /\ pc' = "yield"

\* C1: while edit_mode_active or task_panel_active is true, no step arms the
\* debounce timer or starts a recompute pass; a change notification leaves
\* the timer as it is, and a firing of the debounce timer only stops the
\* timer: it fingerprints nothing and leaves the queue and the record alone.
C1_SuspensionBuffering ==
    [][Suspended =>
          /\ ~Armed
          /\ ~PassStarted
          /\ Notification => /\ recompute_timer' = recompute_timer
                             /\ dirty \subseteq dirty'
                             /\ recompute_queue \subseteq recompute_queue'
          /\ on_recompute_timer => /\ dirty' = dirty
                                   /\ pc' = pc
                                   /\ recompute_queue' = recompute_queue
                                   /\ changed_properties' = changed_properties]_vars

\* A notification was absorbed during suspension and the debounce timer armed
\* before the suspension has fired into it without starting a pass.
C1_Witness ==
    /\ Suspended
    /\ changes_during_task
    /\ pending_output
    /\ recompute_queue # {}
    /\ recompute_timer = Inactive
    /\ pc = "idle"

\* C2 (as claimed): the step that finishes a recompute pass leaves every
\* object whose change was accepted during the pass's processEvents(), and
\* which is still queued, in recompute_queue with its entry in
\* changed_properties.
C2_ArrivalsSurvivePass ==
    [][(on_recompute_timer_resume /\ pc' = "idle") =>
          \A o \in arrived \cap recompute_queue :
              /\ o \in recompute_queue'
              /\ Label(o) \in DOMAIN changed_properties']_vars

\* C3 (as claimed): a step of the recompute pass taken while suspension is in
\* effect removes no object from recompute_queue.
C3_NoDrainWhileSuspended ==
    [][(Suspended /\ (on_recompute_timer \/ on_recompute_timer_resume)) =>
          recompute_queue \subseteq recompute_queue']_vars

\* The release handling of a completion handler: the handler ran past its
\* guard, so it dispatched or discarded.
EditReleaseHandled == check_edit_completion /\ ~task_panel_active
TaskReleaseHandled == check_task_completion /\ ~edit_mode_active
ReleaseHandled == EditReleaseHandled \/ TaskReleaseHandled

\* C5: a completion handler that runs with both flags false and with no
\* change accepted since suspension was entered leaves recompute_queue and
\* changed_properties empty and does not touch the debounce timer.
C5_DiscardOnNoChange ==
    [][(ReleaseHandled /\ ~Suspended /\ ~winChanged) =>
          /\ recompute_queue' = {}
          /\ DOMAIN changed_properties' = {}
          /\ recompute_timer' = recompute_timer
          /\ pc' = pc]_vars

\* A discard has happened: suspension is over, nothing was accepted in it,
\* no completion is pending any more, and the queue is empty although the
\* debounce timer armed before the suspension is still running.
C5_Witness ==
    /\ ~Suspended
    /\ ~winChanged
    /\ edit_completion = <<>> /\ task_completion = <<>>
    /\ recompute_queue = {}
    /\ DOMAIN changed_properties = {}
    /\ recompute_timer \notin {Inactive, recompute_delay}
    /\ pending_output

\* A step in which a suspension flag changes while the other flag is true.
FlagChangeUnderOther ==
    \/ edit_mode_active' # edit_mode_active /\ task_panel_active
    \/ task_panel_active' # task_panel_active /\ edit_mode_active

\* C6 (as claimed): release handling is performed only with both flags
\* false, and a flag transition under the other flag neither arms the
\* debounce timer nor changes the queue or the record.
C6_ReleaseOnlyWhenBothFalse ==
    [][/\ ReleaseHandled => ~Suspended
       /\ FlagChangeUnderOther =>
             /\ recompute_timer' = recompute_timer
             /\ recompute_queue' = recompute_queue
             /\ changed_properties' = changed_properties]_vars

\* C8: recompute_queue is empty exactly when changed_properties is, and
\* every queued object has an entry under its label.
C8_QueueAndRecordTogether ==
    /\ (recompute_queue = {}) <=> (DOMAIN changed_properties = {})
    /\ \A o \in recompute_queue : Label(o) \in DOMAIN changed_properties

\* Both objects are queued with their entries while a pass is in its yield.
C8_Witness ==
    /\ pc = "yield"
    /\ recompute_queue = Objs
    /\ DOMAIN changed_properties = {Label(o) : o \in Objs}

\* A step in which a suspension flag becomes true.
FlagRaised ==
    \/ edit_mode_active' /\ ~edit_mode_active
    \/ task_panel_active' /\ ~task_panel_active

\* C17 (as claimed): a flag becoming true out of Normal sets
\* changes_during_task to false; a flag becoming true while the other one is
\* true leaves changes_during_task as it is.
C17_ResetOnlyOnEntry ==
    [][FlagRaised =>
          IF Suspended THEN changes_during_task' = changes_during_task
          ELSE changes_during_task' = FALSE]_vars

\* An event for the object o carrying the property names `names` is accepted:
\* a slot passes the throttle, or the throttle buffer is flushed.
AcceptedEvent(o, names) ==
    \/ /\ o \in CreatedObjs /\ slotCreatedObject(o)
       /\ active.document /\ observer_active /\ ~Throttled
       /\ names = {NewObject}
    \/ \E p \in EventProps :
          /\ slotChangedObject(o, p) /\ ~Ignored(p) /\ ~Throttled
          /\ names = {p}
    \/ /\ process_throttled_changes
       /\ o \in DOMAIN throttle_queue
       /\ names = throttle_queue[o]

NoDuplicates(list) == \A i, j \in 1..Len(list) : list[i] = list[j] => i = j

\* C19 (as claimed): after an accepted event for an object its entry in
\* changed_properties holds every name it held before and the names of the
\* event, each once, and the object is in recompute_queue.
C19_RecordIsUnion ==
    [][\A o \in Objs, names \in SUBSET (EventProps \cup {NewObject}) :
          AcceptedEvent(o, names) =>
              /\ o \in recompute_queue'
              /\ RecordOf(changed_properties, o) \cup names
                    = RecordOf(changed_properties', o)
              /\ NoDuplicates(Get(changed_properties', Label(o)))]_vars

\* ========================================================================
\* Properties of sort_by_dependencies (specification SpecSort)

\* The in-set dependency edges of the call: o depends on d.
InSetEdge(o, d) ==
    /\ o \in Range(sort_objects)
    /\ d \in Range(sort_objects)
    /\ d \in Range(sort_out[o])

RECURSIVE ReachableFrom(_, _)
ReachableFrom(frontier, seen) ==
    LET next == {d \in SortObjs : \E o \in frontier : InSetEdge(o, d)} \ seen
    IN  IF next = {} THEN seen ELSE ReachableFrom(next, seen \cup next)

Acyclic == \A o \in SortObjs : o \notin ReachableFrom({o}, {})

\* C9: on an input whose in-set dependency edges are acyclic, no object of
\* the result stands before one of its in-set dependencies; the input
\* [3, 2, 1] with 2 depending on 1 and 3 depending on 2 yields [1, 2, 3].
C9_TopologicalOrder ==
    sort_done =>
        /\ Acyclic =>
              \A i, j \in 1..Len(sort_result) :
                  InSetEdge(sort_result[i], sort_result[j]) => j < i
        /\ (/\ sort_objects = <<3, 2, 1>>
            /\ sort_out[1] = <<>> /\ sort_out[2] = <<1>> /\ sort_out[3] = <<2>>)
              => sort_result = <<1, 2, 3>>

\* The chain example has been sorted.
C9_Witness ==
    /\ sort_done
    /\ sort_objects = <<3, 2, 1>>
    /\ sort_out[1] = <<>> /\ sort_out[2] = <<1>> /\ sort_out[3] = <<2>>
    /\ sort_result = <<1, 2, 3>>

\* ========================================================================
\* Properties of process_feature (specification SpecFeature)

cached == obj_Name \in DOMAIN feature_cache

\* The hash a call of process_feature computes when it gets that far.
new_hash == calculate_hash(get_feature_data(attrs))

\* A call that computes the hash and meets no failure.
Recompute == process_feature("none") /\ ~cache_hit

\* C10 (as claimed): a call that computes the hash writes the cache entry
\* exactly when there was none or the new hash differs from the cached one;
\* with the same hash the entry, its time included, stays as it was.
C10_CacheWrittenIffHashDiffers ==
    [][Recompute =>
          ((feature_cache' # feature_cache)
              <=> (~cached \/ feature_cache[obj_Name].hash # new_hash))]_vars

\* C10 (amended): every call that computes the hash and meets no failure
\* writes the cache entry with the current time and the new hash, also when
\* the hash is the one already cached; a call taking the fast path or failing
\* before the write leaves the cache as it was.
C10_CacheWrittenOnEveryRecompute ==
    [][\A fail \in Failures : process_feature(fail) =>
          IF cache_hit \/ fail = "hash" \/ (fail = "FeatureHash" /\ FeatureHash # new_hash)
          THEN feature_cache' = feature_cache
          ELSE /\ obj_Name \in DOMAIN feature_cache'
               /\ feature_cache'[obj_Name] = [time |-> clock, hash |-> new_hash]
               /\ feature_cache'[obj_Name].time > (IF cached THEN feature_cache[obj_Name].time ELSE 0)]_vars

\* A recompute found the hash already stored and cached, and refreshed the
\* time of the cache entry.
C10_Witness ==
    /\ cached
    /\ ~returned
    /\ FeatureHash = feature_cache[obj_Name].hash
    /\ FeatureHistory # <<>>
    /\ FeatureHistory[Len(FeatureHistory)].time >= 1
    /\ FeatureHistory[Len(FeatureHistory)].hash = FeatureHash
    /\ FeatureHistory[Len(FeatureHistory)].time < TimeStamp
    /\ TimeStamp < feature_cache[obj_Name].time
    /\ feature_cache[obj_Name].time = clock - 1
    /\ has_TimeStamp
    /\ new_hash = FeatureHash

\* The object has been fingerprinted: the stored hash is the cached one and
\* the one of the newest history entry.
Fingerprinted_h0 ==
    /\ cached
    /\ FeatureHash = feature_cache[obj_Name].hash
    /\ FeatureHistory # <<>>
    /\ FeatureHistory[Len(FeatureHistory)].hash = FeatureHash

\* C11 (as claimed): on an object fingerprinted with the hash h0, one of
\* whose relevant attributes has changed since, the next process_feature call
\* that meets no failure returns true, stores a hash different from h0, adds
\* one entry (the new hash, at the end) to FeatureHistory and gives the cache
\* entry a later time.
C11_ChangeDetected ==
    [][(process_feature("none") /\ Fingerprinted_h0 /\ new_hash # FeatureHash) =>
          /\ returned' = TRUE
          /\ FeatureHash' = new_hash
          /\ FeatureHash' # FeatureHash
          /\ FeatureHistory' = LastN(Append(FeatureHistory,
                                            [time |-> clock, hash |-> new_hash]),
                                     history_length)
          /\ feature_cache'[obj_Name].time > feature_cache[obj_Name].time]_vars

\* C12: FeatureHistory never has more than history_length entries; it is
\* the tail of the log of all entries ever appended, so that after more than
\* history_length hash changes it holds exactly the history_length newest
\* entries, the oldest first.
C12_HistoryCap ==
    /\ Len(FeatureHistory) <= history_length
    /\ FeatureHistory = LastN(fullLog, history_length)
    /\ Len(fullLog) > history_length =>
          /\ Len(FeatureHistory) = history_length
          /\ \A k \in 1..history_length :
                FeatureHistory[k] = fullLog[Len(fullLog) - history_length + k]
    /\ \A i, j \in 1..Len(FeatureHistory) :
          i < j => FeatureHistory[i].time < FeatureHistory[j].time

\* A full history has taken one more entry in this session and has given up
\* its oldest one.
C12_Witness ==
    /\ Len(fullLog) = history_length + 1
    /\ Len(FeatureHistory) = history_length
    /\ FeatureHistory[history_length].time >= 1
    /\ FeatureHistory[history_length].hash = FeatureHash
    /\ FeatureHistory[1] = fullLog[2]
    /\ returned

\* The branch of process_feature that updates the history is entered: the
\* hash is computed and differs from the stored hash.
HistoryUpdated(fail) ==
    Computes(fail) /\ FeatureHash # calculate_hash(get_feature_data(attrs))

\* The hash of the newest history entry is the computed one.
NewestHasHash ==
    /\ FeatureHistory # <<>>
    /\ FeatureHistory[Len(FeatureHistory)].hash = calculate_hash(get_feature_data(attrs))

\* C23 (as claimed): FeatureHistory never holds two consecutive entries of
\* the same hash; a call appends an entry only when the computed hash
\* differs from the hash of the newest entry, and otherwise replaces the
\* newest entry by the entry of this call, the length staying the same.
C23_NoConsecutiveDuplicates ==
    /\ [](\A k \in 1..(Len(FeatureHistory) - 1) :
             FeatureHistory[k].hash # FeatureHistory[k + 1].hash)
    /\ [][\A fail \in Failures :
             process_feature(fail) =>
                 IF ~HistoryUpdated(fail)
                 THEN FeatureHistory' = FeatureHistory
                 ELSE IF NewestHasHash
                 THEN /\ Len(FeatureHistory') = Len(FeatureHistory)
                      /\ FeatureHistory'[Len(FeatureHistory)] =
                            [time |-> clock,
                             hash |-> calculate_hash(get_feature_data(attrs))]
                 ELSE FeatureHistory' =
                        LastN(Append(FeatureHistory,
                                     [time |-> clock,
                                      hash |-> calculate_hash(get_feature_data(attrs))]),
                              history_length)]_vars

Skipped == UNCHANGED <<FeatureHash, FeatureHistory, feature_cache>> /\ returned' = FALSE

\* C16 (as claimed): a call that meets no failure skips the recomputation
\* and returns false when the cache entry is not older than the object's
\* TimeStamp; on an object without a TimeStamp it always recomputes the hash,
\* which shows in the cache entry written with the current time.
C16_NoTimeStampAlwaysRecomputes ==
    [][process_feature("none") =>
          /\ (has_TimeStamp /\ cached /\ TimeStamp <= feature_cache[obj_Name].time)
                => Skipped
          /\ ~has_TimeStamp =>
                /\ obj_Name \in DOMAIN feature_cache'
                /\ feature_cache'[obj_Name] = [time |-> clock, hash |-> new_hash]]_vars

\* ========================================================================
\* Properties of the edit window (specification SpecEdit)

\* C4 (as claimed): when check_edit_completion handles the release of an edit
\* window in which changes of an object were accepted and have not been
\* fingerprinted yet, it arms the debounce timer with the object queued
\* under the union of the property names of the window.
C4_DispatchOnRelease ==
    [][\A o \in Objs :
          (check_edit_completion /\ winProps[o] # {}) =>
              /\ recompute_timer' = recompute_delay
              /\ o \in recompute_queue'
              /\ winProps[o] \subseteq RecordOf(changed_properties', o)]_vars

\* ========================================================================
\* Properties of the throttle (specification SpecThrottle)

BurstFlushed == process_throttled_changes /\ BurstObj \in DOMAIN throttle_queue

\* C7 (as claimed): a burst of two or more events has produced exactly one
\* accepted aggregation when its buffered events are flushed, and the record
\* then holds the union of the property names of the burst.
C7_OneAggregationPerBurst ==
    [][(BurstFlushed /\ burstN >= 2) =>
          /\ burstAggs' = 1
          /\ burstProps \subseteq RecordOf(changed_properties', BurstObj)]_vars

\* A notification that the throttle diverts into its buffer.
Diverted(o, p) == slotChangedObject(o, p) /\ ~Ignored(p) /\ Throttled

\* C7 (amended): an event arriving less than throttle_interval after the last
\* accepted event is only buffered (queue, record and debounce timer stay as
\* they are); a burst all of whose events were buffered produces exactly one
\* accepted aggregation, the flush, which queues the object under the union
\* of the property names of the burst and empties the buffer.
C7_BufferedBurstFlushedOnce ==
    [][/\ \A o \in Objs, p \in BurstEventProps :
             Diverted(o, p) =>
                 /\ recompute_queue' = recompute_queue
                 /\ changed_properties' = changed_properties
                 /\ recompute_timer' = recompute_timer
                 /\ pending_output' = pending_output
                 /\ o \in DOMAIN throttle_queue' /\ p \in throttle_queue'[o]
                 /\ throttle_timer' = throttle_interval
       /\ (BurstFlushed /\ burstN >= 1 /\ burstAggs = 0) =>
             /\ burstAggs' = 1
             /\ BurstObj \in recompute_queue'
             /\ burstProps \subseteq RecordOf(changed_properties', BurstObj)
             /\ recompute_timer' = recompute_delay
             /\ throttle_queue' = EmptyMap]_vars

\* A burst of at least two events with two property names was buffered as a
\* whole and has been flushed in one aggregation.
C7_Witness ==
    /\ burstN >= 2
    /\ burstAggs = 1
    /\ Cardinality(burstProps) = 2
    /\ ~burstOpen
    /\ throttle_queue = EmptyMap
    /\ BurstObj \in recompute_queue
    /\ burstProps \subseteq RecordOf(changed_properties, BurstObj)

\* ========================================================================
\* Properties of the blocked firings (specification SpecStall)

\* A firing of the debounce timer under suspension.
BlockedFiring == on_recompute_timer /\ Suspended

\* The step that ends a pass which had the object o in its snapshot.
FingerprintedBy(o) ==
    on_recompute_timer_resume /\ pc' = "idle" /\ o \in Range(sorted_objects)

\* C18 (as claimed): a firing of the debounce timer under suspension leaves
\* the queue and the record as they are, and an object it has left in the
\* queue leaves the queue only at the end of a pass that fingerprinted it.
C18_StalledNeverDropped ==
    [][/\ BlockedFiring => /\ recompute_queue' = recompute_queue
                           /\ changed_properties' = changed_properties
                           /\ pc' = pc
       /\ \A o \in stalled : o \notin recompute_queue' => FingerprintedBy(o)]_vars

\* C18 (with the discard of C24 allowed): a firing of the debounce timer under suspension leaves the
\* queue and the record as they are, and an object it has left in the queue
\* leaves the queue only at the end of a pass that fingerprinted it or in a
\* completion handler that finds changes_during_task false and discards.
C18_StalledUntilPassOrDiscard ==
    [][/\ BlockedFiring => /\ recompute_queue' = recompute_queue
                           /\ changed_properties' = changed_properties
                           /\ pc' = pc
       /\ \A o \in stalled :
             o \notin recompute_queue' =>
                 \/ FingerprintedBy(o)
                 \/ ReleaseHandled /\ ~changes_during_task]_vars

\* An object left in the queue by a blocked firing is in the snapshot of the
\* pass in flight and has been fingerprinted by it.
C18_Witness ==
    /\ pc = "yield"
    /\ stalled # {}
    /\ stalled \subseteq Range(sorted_objects)
    /\ stalled \cap dirty = {}
    /\ ~Suspended

\* ========================================================================
\* Properties of the on/off switch (specification SpecToggle)

\* A notification of the host: a created object or a changed property.
HostNotification ==
    \/ \E o \in CreatedObjs : slotCreatedObject(o)
    \/ \E o \in Objs, p \in EventProps : slotChangedObject(o, p)

\* C14 (as claimed): while the switch is off a notification leaves the
\* queue, the record, the throttle buffer and every timer as they are; while
\* it is on, also after it was off, no notification of a property that is
\* not ignored is turned away by the slots' first test, and it is aggregated:
\* the object is queued with the property recorded, or the property is in
\* the throttle buffer for the next flush.
C14_ToggleRestoresProcessing ==
    /\ [](observer_active => \A p \in EventProps \ ignored_props : ~Ignored(p))
    /\ [][/\ (HostNotification /\ ~observer_active) =>
                UNCHANGED <<recompute_queue, changed_properties, throttle_queue,
                            recompute_timer, throttle_timer, edit_timer,
                            edit_completion, task_completion>>
          /\ \A o \in Objs, p \in EventProps \ ignored_props :
                (slotChangedObject(o, p) /\ observer_active) =>
                    \/ /\ o \in recompute_queue'
                       /\ p \in RecordOf(changed_properties', o)
                    \/ /\ o \in DOMAIN throttle_queue'
                       /\ p \in throttle_queue'[o]]_vars

\* ========================================================================
\* Properties of a recompute pass (specification SpecPass)

\* The objects process_feature was called on during the pass.
RunCalled == {run_calls[k][1] : k \in 1..Len(run_calls)}

\* C15 (as claimed): no failure met on one object ends the pass: every call
\* of process_feature on an object the host fails on returns False, no
\* exception leaves on_recompute_timer, every object of the snapshot is
\* fingerprinted, and the pass ends with the queue cleared.
C15_FailureNeverAbortsPass ==
    /\ \A k \in 1..Len(run_calls) :
          run_calls[k][1] \in run_failing => run_calls[k][2] = "False"
    /\ run_pc # "raised"
    /\ run_pc \in {"yield", "done"} => Range(run_queue) \subseteq RunCalled
    /\ (run_pc = "done") = run_cleared

\* ========================================================================
\* Properties of process_with_depth_limit (specification SpecDepth)

\* The objects reachable from the objects S through at most k OutList edges.
RECURSIVE WithinEdges(_, _, _)
WithinEdges(out, S, k) ==
    IF k = 0 THEN S
    ELSE WithinEdges(out, S \cup {c \in DepthObjs : \E o \in S : c \in Range(out[o])},
                     k - 1)

DepthWithin(k) == WithinEdges(depth_out, {depth_obj}, k)
DepthReachable == DepthWithin(MaxDepthObjs)
DepthCalled == Range(depth_calls)

\* The least number of OutList edges from depth_obj to a reachable object.
DepthDist(o) == CHOOSE k \in 0..MaxDepthObjs :
                    /\ o \in DepthWithin(k)
                    /\ \A j \in 0..(k - 1) : o \notin DepthWithin(j)

\* Every path from depth_obj to an object has the same number of edges.
DepthLayered ==
    \A a \in DepthReachable : \A b \in Range(depth_out[a]) :
        DepthDist(b) = DepthDist(a) + 1

\* C20 (as claimed): the call with depth d fingerprints the object and every
\* object reachable through at most d OutList edges, each once.
C20_CoversDepthEdges ==
    depth_done =>
        /\ DepthCalled = DepthWithin(depth_d)
        /\ NoDuplicates(depth_calls)

\* C20 (amended): the call fingerprints each object at most once, the
\* argument first; with depth 0 every reachable object; with depth d >= 1
\* only objects within d - 1 edges, among them all within one edge when
\* d >= 2, and all within d - 1 edges when every path to an object has the
\* same length.
C20_CoversDepthMinusOneEdges ==
    depth_done =>
        /\ NoDuplicates(depth_calls)
        /\ depth_calls # <<>> /\ depth_calls[1] = depth_obj
        /\ depth_d = 0 => DepthCalled = DepthReachable
        /\ depth_d >= 1 => DepthCalled \subseteq DepthWithin(depth_d - 1)
        /\ depth_d >= 2 => DepthWithin(1) \subseteq DepthCalled
        /\ (depth_d >= 1 /\ DepthLayered) => DepthCalled = DepthWithin(depth_d - 1)

\* A call with depth 3 has fingerprinted objects two edges away and has left
\* out an object three edges away.
C20_Witness ==
    /\ depth_done
    /\ depth_d = 3
    /\ DepthWithin(2) # DepthWithin(1)
    /\ DepthWithin(3) # DepthWithin(2)
    /\ DepthCalled = DepthWithin(2)

\* A call with depth 3 has left out an object two edges away, met first on
\* a longer path.
C20_MissedWithinLimit ==
    /\ depth_done
    /\ depth_d = 3
    /\ DepthCalled # DepthWithin(2)

\* ========================================================================
\* Properties of the debounce (specification SpecDebounce)

\* The debounce firings pending: the current timer and the earlier timer
\* objects still running.
PendingFirings ==
    (IF Running(recompute_timer) THEN 1 ELSE 0) + Cardinality(replaced)

\* A step in which a slot or the throttle flush accepts a signal.
SignalAccepted ==
    /\ elapsed' = 0
    /\ elapsed # 0 \/ (throttle_timer = 0 /\ throttle_timer' = Inactive)

\* C21: every signal accepted while not suspended stops the debounce timer
\* and starts a new one of recompute_delay, at most one firing is pending at
\* any time, and a pass starts only when recompute_delay has passed since
\* the last signal accepted while not suspended.
C21_TrailingEdgeDebounce ==
    /\ [](PendingFirings <= 1)
    /\ [][/\ (SignalAccepted /\ ~Suspended) =>
                (recompute_timer' = recompute_delay /\ replaced' = {})
          /\ PassStarted => quiet >= recompute_delay]_vars

\* A pass is under way that started recompute_delay after the second of two
\* signals accepted for the pad in one aggregation cycle.
C21_Witness ==
    /\ pc = "yield"
    /\ quiet = recompute_delay
    /\ Get(changed_properties, Label("Pad")) = <<NewObject, "Length">>

\* ========================================================================
\* Properties of the ignored-property filter (specification SpecFilter)

\* C22: a property-changed notification whose property is in ignored_props
\* leaves recompute_queue, changed_properties, the throttle buffer,
\* last_change_time and the debounce and throttle timers unchanged.
C22_IgnoredPropertyFilter ==
    [][\A o \in Objs, p \in FilterProps \cap ignored_props :
          slotChangedObject(o, p) =>
              UNCHANGED <<recompute_queue, changed_properties, throttle_queue,
                          elapsed, recompute_timer, throttle_timer>>]_vars

\* Notifications of three ignored properties were dropped with an object
\* queued, another buffered and both timers running.
C22_Witness ==
    /\ filtered = FilterProps \cap ignored_props
    /\ recompute_queue # {}
    /\ throttle_queue # EmptyMap
    /\ Running(recompute_timer)
    /\ Running(throttle_timer)

\* ========================================================================
\* Properties of the changes accepted in normal mode (specification SpecLoss)

\* A completion handler takes its discard branch on a queue that is not empty.
Discarded == ReleaseHandled /\ recompute_queue # {} /\ recompute_queue' = {}

\* C24 (as claimed): an object with a change accepted while neither flag was
\* set stays in recompute_queue until a pass takes it into its snapshot, and
\* the discard of a completion handler removes no object with a change
\* accepted since suspension was entered.
C24_NoLossOfNormalModeChanges ==
    /\ [](normalPending \subseteq recompute_queue)
    /\ [][Discarded => recompute_queue \cap sinceEntry = {}]_vars

\* ========================================================================
\* Termination and result of sort_by_dependencies (specification SpecSortLive)

\* The dependency edges among the objects of the input form a cycle.
Cyclic == ~Acyclic

\* C25: the call returns on every input, with or without cycles among its
\* dependency edges, and the list returned holds every object of the input
\* exactly once and no other object.
C25_TerminatesWithPermutation ==
    /\ <>sort_done
    /\ [](sort_done =>
            /\ Len(sort_result) = Len(sort_objects)
            /\ Range(sort_result) \subseteq Range(sort_objects)
            /\ \A o \in Range(sort_objects) :
                  Cardinality({k \in 1..Len(sort_result) : sort_result[k] = o}) = 1)

\* The call has returned on three objects whose dependency edges form a
\* cycle through all of them.
C25_Witness ==
    /\ sort_done
    /\ Len(sort_objects) = MaxSortObjs
    /\ Cyclic
    /\ \A o \in SortObjs : ReachableFrom({o}, {}) = SortObjs
    /\ Len(sort_result) = MaxSortObjs

====
